---------------------------- MODULE Spec2Model ----------------------------
(***************************************************************************)
(* A Bloom filter kept in a Redis-like store (bloomfilter.py).             *)
(*                                                                         *)
(* The store holds, per filter name, a hash "<name>:metadata" and a string *)
(* "<name>:bits".  Several callers run initialize_bloom_filter,            *)
(* add_to_bloom_filter and check_bloom_filter concurrently; every store    *)
(* command (hset, set, hgetall, setbit, getbit) is one atomic step, and a  *)
(* pending store command may instead raise (the connection is lost).       *)
(***************************************************************************)
EXTENDS Integers, Sequences, FiniteSets, TLC

(***************************************************************************)
(* Bounds of the model.                                                    *)
(***************************************************************************)
Procs == {"c1", "c2"}

Names == {"A", "B"}

\* Calls started in one behaviour.
MaxCalls == 3

\* <<expected_elements, false_positive_rate in percent>>
Params == {<<1, 50>>, <<40, 20>>}

StrItem(s) == [type |-> "str", int |-> 0, str |-> s]

IntItem(n) == [type |-> "int", int |-> n, str |-> ""]

NoItem == [type |-> "none", int |-> 0, str |-> ""]

Items == {StrItem("n"), StrItem("20"), IntItem(20)}

\* The items given to the filters of FilterSpec.
FilterItems == {StrItem("b"), IntItem(77)}

(***************************************************************************)
(* Sizing: m and k from expected_elements and false_positive_rate.         *)
(* Logarithms are fixed point, scaled by LogScale; false_positive_rate is  *)
(* given in percent.  On every input of Params and of SizingParams, and on *)
(* <<30, 20>> and <<100, 10>>, the integer results equal those of the      *)
(* double-precision evaluation.                                            *)
(***************************************************************************)
LogScale == 100000

\* -math.log(false_positive_rate) * LogScale
NegLog(pct) ==
    CASE pct = 50 -> 69315
      [] pct = 20 -> 160944
      [] pct = 10 -> 230259
      [] pct = 1  -> 460517
      [] pct = 80 -> 22314
      [] pct = 99 -> 1005

\* math.log(2) * LogScale
Log2 == 69315

\* (math.log(2) ** 2) * LogScale
Log2Sq == 48045

Max(a, b) == IF a >= b THEN a ELSE b

\* Variant: the quotient is rounded up (math.ceil instead of int).
raw_m_ceil(expected_elements, false_positive_rate) ==
    (expected_elements * NegLog(false_positive_rate) + Log2Sq - 1) \div Log2Sq

\* Variant: the logarithm is taken of 1 - p instead of p.
raw_m_of_complement(expected_elements, false_positive_rate) ==
    (expected_elements * NegLog(100 - false_positive_rate)) \div Log2Sq

\* int(-(n * log(p)) / (log(2) ** 2)): int() truncates, the value is positive
raw_m(expected_elements, false_positive_rate) ==
    (expected_elements * NegLog(false_positive_rate)) \div Log2Sq

\* int((m / n) * log(2)), from the m before its floor
raw_k(expected_elements, false_positive_rate) ==
    (raw_m(expected_elements, false_positive_rate) * Log2)
        \div (expected_elements * LogScale)

\* Variant: the size has no floor (m is used as computed).
size_of_without_floor(expected_elements, false_positive_rate) ==
    raw_m(expected_elements, false_positive_rate)

size_of(expected_elements, false_positive_rate) ==
    Max(100, raw_m(expected_elements, false_positive_rate))

hash_functions_of(expected_elements, false_positive_rate) ==
    Max(1, raw_k(expected_elements, false_positive_rate))

\* The mapping initialize_bloom_filter writes with hset.
Mapping(expected_elements, false_positive_rate) ==
    [size |-> size_of(expected_elements, false_positive_rate),
     hash_functions |-> hash_functions_of(expected_elements, false_positive_rate),
     expected_elements |-> expected_elements,
     false_positive_rate |-> false_positive_rate]

(***************************************************************************)
(* Keys and bit positions.                                                 *)
(***************************************************************************)
\* str(item)
Str(item) == IF item.type = "int" THEN ToString(item.int) ELSE item.str

Keys == {Str(x) : x \in Items \cup FilterItems}

\* mmh3.hash(item_str, seed): MurmurHash3 x86 32, signed, of the UTF-8 bytes
mmh3_hash(item_str, seed) ==
    CASE item_str = "n" ->
           <<-967714644, -159616713, 2023264967,
             1894052150, 124607610, 1923574853>>[seed + 1]
      [] item_str = "20" ->
           <<-163077544, -2062043794, -1372531299,
             236547669, -504609763, 1829503820>>[seed + 1]
      [] item_str = "a" ->
           <<1009084850, 1485495528, -810024386,
             1867108634, -1911403394, -421461367>>[seed + 1]
      [] item_str = "b" ->
           <<-1780580861, 2006153799, 673995046,
             1556475527, -252536730, -547784004>>[seed + 1]
      [] item_str = "77" ->
           <<-1435640861, 1509136792, -298836243,
             -510976553, -992544023, 1260787615>>[seed + 1]

\* hash_val = mmh3.hash(item_str, i) % m  (Python's %: the sign of m)
hash_val(item_str, i, m) == mmh3_hash(item_str, i) % m

\* The offsets of one key: range(k)
Positions(item_str, m, k) == {hash_val(item_str, i, m) : i \in 0 .. (k - 1)}

\* Variant: the insert loop seeds from 1 (range(1, k + 1)).
add_offset_seed_from_one(f) == hash_val(Str(f.item), f.i + 1, f.m)

\* The offset add_to_bloom_filter sets in iteration f.i
add_offset(f) == hash_val(Str(f.item), f.i, f.m)

\* The offset check_bloom_filter reads in iteration f.i
check_offset(f) == hash_val(Str(f.item), f.i, f.m)

(***************************************************************************)
(* The store's string value under "<name>:bits": its length in bytes and   *)
(* the offsets of its 1 bits.                                              *)
(***************************************************************************)
\* b'\x00' * nbytes
ZeroBuffer(nbytes) == [len |-> nbytes, ones |-> {}]

\* Variant: the bit is flipped instead of set.
SetBit_flips(buf, offset) ==
    [len |-> Max(buf.len, (offset \div 8) + 1),
     ones |-> IF offset \in buf.ones THEN buf.ones \ {offset}
              ELSE buf.ones \cup {offset}]

\* Variant: the byte holding the bit is written whole, with only this bit set.
SetBit_writes_byte(buf, offset) ==
    [len |-> Max(buf.len, (offset \div 8) + 1),
     ones |-> {o \in buf.ones : o \div 8 # offset \div 8} \cup {offset}]

\* SETBIT key offset 1 on the value buf: sets the bit, and pads the string
\* with zero bytes when the offset lies beyond its end.
SetBit(buf, offset) ==
    [len |-> Max(buf.len, (offset \div 8) + 1), ones |-> buf.ones \cup {offset}]

MaxOf(S) == CHOOSE x \in S : \A y \in S : y <= x

\* The value buf after SETBIT of every offset of the set offsets, in any order.
SetBits(buf, offsets) ==
    IF offsets = {} THEN buf
    ELSE [len |-> Max(buf.len, MaxOf({(o \div 8) + 1 : o \in offsets})),
          ones |-> buf.ones \cup offsets]

\* A function with key k put to v (hset / set / setbit creating the key).
\* Variant: the store key does not include the name (one key for all filters).
Put_under_shared_key(f, k, v) == [x \in (DOMAIN f) \cup {k} |-> v]

Put(f, k, v) == [x \in (DOMAIN f) \cup {k} |-> IF x = k THEN v ELSE f[x]]

VARIABLES
    metadata,   \* "<name>:metadata": name -> mapping, for the names that have it
    bits,       \* "<name>:bits": name -> buffer, for the names that have it
    pc,         \* where each caller is in its call
    frame,      \* each caller's call: op, arguments, m, k, i
    result,     \* what each caller's last call returned or raised
    calls,      \* calls started so far
    completed,  \* history: per name and key, whether an insert completed
                \* ("yes"), did before the last initialization write
                \* ("stale"), or only a query answered True ("answered")
    seen,       \* history: what each call found when it started
    disturbed,  \* history: what was written under the call's name during it
    torn,       \* history: names whose initialization stopped between its writes
    batch       \* history: per name, the inserts running together, and
                \* (started) the offsets of the inserts started since the
                \* buffer was last written by an initialization

vars == <<metadata, bits, pc, frame, result, calls,
          completed, seen, disturbed, torn, batch>>

NoFrame ==
    [op |-> "none", filter_name |-> "A", item |-> NoItem,
     expected_elements |-> 0, false_positive_rate |-> 0,
     m |-> 0, k |-> 0, i |-> 0]

NoBatch == [live |-> FALSE, base |-> ZeroBuffer(0), want |-> {},
            keys |-> {}, overlap |-> FALSE, started |-> {}]

Init ==
    /\ metadata = [n \in {} |-> 0]
    /\ bits = [n \in {} |-> 0]
    /\ pc = [p \in Procs |-> "idle"]
    /\ frame = [p \in Procs |-> NoFrame]
    /\ result = [p \in Procs |-> "none"]
    /\ calls = 0
    /\ completed = [n \in Names |-> [key \in Keys |-> "no"]]
    /\ seen = [p \in Procs |-> "none"]
    /\ disturbed = [p \in Procs |-> "none"]
    /\ torn = {}
    /\ batch = [n \in Names |-> NoBatch]

(***************************************************************************)
(* Store reads.                                                            *)
(***************************************************************************)
\* `if not metadata`: hgetall of a missing key is the empty dict
NotFound(filter_name) == filter_name \notin DOMAIN metadata

\* The value SETBIT works on: a missing key is the empty string
BitsValue(filter_name) ==
    IF filter_name \in DOMAIN bits THEN bits[filter_name] ELSE ZeroBuffer(0)

\* GETBIT: 0 for a missing key and beyond the end of the string
getbit(filter_name, offset) ==
    IF offset \in BitsValue(filter_name).ones THEN 1 ELSE 0

(***************************************************************************)
(* History bookkeeping.                                                    *)
(***************************************************************************)
CanCall(self) == pc[self] \in {"idle", "done"} /\ calls < MaxCalls

InLoop(q) == pc[q] \in {"add_loop", "check_loop"}

Running(q) == pc[q] \in {"init_bits", "add_loop", "check_loop"}

AddsOn(filter_name) ==
    {q \in Procs : pc[q] = "add_loop" /\ frame[q].filter_name = filter_name}

\* Between the two writes of an initialization of filter_name.
Half(filter_name) ==
    \/ filter_name \in torn
    \/ \E q \in Procs : pc[q] = "init_bits" /\ frame[q].filter_name = filter_name

\* An initialization write under filter_name, by self.
AfterInitWrite(self, filter_name) ==
    /\ disturbed' = [q \in Procs |->
          IF q # self /\ Running(q) /\ frame[q].filter_name = filter_name
          THEN "init" ELSE IF q = self /\ pc[self] # "init_bits" THEN "none"
          ELSE disturbed[q]]
    /\ completed' = [completed EXCEPT ![filter_name] =
          [key \in Keys |-> IF @[key] = "yes" THEN "stale"
                            ELSE IF @[key] = "answered" THEN "no"
                            ELSE @[key]]]

\* A setbit under filter_name, by self, from the buffer old to the buffer new.
AfterSetBit(self, filter_name, old, new) ==
    disturbed' = [q \in Procs |->
        IF q # self /\ Running(q) /\ frame[q].filter_name = filter_name
           /\ old # new /\ disturbed[q] = "none"
        THEN "set" ELSE disturbed[q]]

(***************************************************************************)
(* initialize_bloom_filter: hset of the metadata, then set of the bits.    *)
(***************************************************************************)
\* Variant: a name that already has metadata is refused (fail if exists).
initialize_fails_if_exists(self, filter_name, expected_elements, false_positive_rate) ==
    /\ CanCall(self)
    /\ calls' = calls + 1
    /\ metadata' = IF NotFound(filter_name)
                   THEN Put(metadata, filter_name,
                            Mapping(expected_elements, false_positive_rate))
                   ELSE metadata
    /\ frame' = [frame EXCEPT ![self] =
          [op |-> "initialize", filter_name |-> filter_name, item |-> NoItem,
           expected_elements |-> expected_elements,
           false_positive_rate |-> false_positive_rate,
           m |-> size_of(expected_elements, false_positive_rate),
           k |-> hash_functions_of(expected_elements, false_positive_rate),
           i |-> 0]]
    /\ pc' = [pc EXCEPT ![self] =
          IF NotFound(filter_name) THEN "init_bits" ELSE "done"]
    /\ result' = [result EXCEPT ![self] =
          IF NotFound(filter_name) THEN "none" ELSE "ValueError"]
    /\ seen' = [seen EXCEPT ![self] =
          IF filter_name \notin DOMAIN metadata THEN "fresh"
          ELSE IF BitsValue(filter_name).ones = {} THEN "empty" ELSE "used"]
    /\ IF NotFound(filter_name)
       THEN AfterInitWrite(self, filter_name)
       ELSE /\ disturbed' = [disturbed EXCEPT ![self] = "none"]
            /\ UNCHANGED completed
    /\ UNCHANGED <<bits, torn, batch>>

initialize_bloom_filter(self, filter_name, expected_elements, false_positive_rate) ==
    /\ CanCall(self)
    /\ calls' = calls + 1
    /\ metadata' = Put(metadata, filter_name,
                       Mapping(expected_elements, false_positive_rate))
    /\ frame' = [frame EXCEPT ![self] =
          [op |-> "initialize", filter_name |-> filter_name, item |-> NoItem,
           expected_elements |-> expected_elements,
           false_positive_rate |-> false_positive_rate,
           m |-> size_of(expected_elements, false_positive_rate),
           k |-> hash_functions_of(expected_elements, false_positive_rate),
           i |-> 0]]
    /\ pc' = [pc EXCEPT ![self] = "init_bits"]
    /\ result' = [result EXCEPT ![self] = "none"]
    /\ seen' = [seen EXCEPT ![self] =
          IF filter_name \notin DOMAIN metadata THEN "fresh"
          ELSE IF BitsValue(filter_name).ones = {} THEN "empty" ELSE "used"]
    /\ AfterInitWrite(self, filter_name)
    /\ UNCHANGED <<bits, torn, batch>>

\* Variant: the buffer has m // 8 bytes.
initialize_set_bits_rounds_down(self) ==
    /\ pc[self] = "init_bits"
    /\ bits' = Put(bits, frame[self].filter_name,
                   ZeroBuffer(frame[self].m \div 8))
    /\ pc' = [pc EXCEPT ![self] = "done"]
    /\ result' = [result EXCEPT ![self] = "dict"]
    /\ AfterInitWrite(self, frame[self].filter_name)
    /\ torn' = torn \ {frame[self].filter_name}
    /\ batch' = [batch EXCEPT ![frame[self].filter_name] = NoBatch]
    /\ UNCHANGED <<metadata, frame, calls, seen>>

\* redis_client.set(f"{filter_name}:bits", b'\x00' * ((m + 7) // 8)); return {...}
initialize_set_bits(self) ==
    /\ pc[self] = "init_bits"
    /\ bits' = Put(bits, frame[self].filter_name,
                   ZeroBuffer((frame[self].m + 7) \div 8))
    /\ pc' = [pc EXCEPT ![self] = "done"]
    /\ result' = [result EXCEPT ![self] = "dict"]
    /\ AfterInitWrite(self, frame[self].filter_name)
    /\ torn' = torn \ {frame[self].filter_name}
    /\ batch' = [batch EXCEPT ![frame[self].filter_name] = NoBatch]
    /\ UNCHANGED <<metadata, frame, calls, seen>>

(***************************************************************************)
(* add_to_bloom_filter: hgetall, then k times setbit.                      *)
(***************************************************************************)
add_to_bloom_filter(self, filter_name, item) ==
    /\ CanCall(self)
    /\ calls' = calls + 1
    /\ disturbed' = [disturbed EXCEPT ![self] = "none"]
    /\ IF NotFound(filter_name)
       THEN /\ frame' = [frame EXCEPT ![self] =
                   [NoFrame EXCEPT !.op = "add", !.filter_name = filter_name,
                                   !.item = item]]
            /\ pc' = [pc EXCEPT ![self] = "done"]
            /\ result' = [result EXCEPT ![self] = "ValueError"]
            /\ seen' = [seen EXCEPT ![self] = "missing"]
            /\ UNCHANGED batch
       ELSE /\ frame' = [frame EXCEPT ![self] =
                   [NoFrame EXCEPT !.op = "add", !.filter_name = filter_name,
                                   !.item = item,
                                   !.m = metadata[filter_name].size,
                                   !.k = metadata[filter_name].hash_functions]]
            /\ pc' = [pc EXCEPT ![self] = "add_loop"]
            /\ result' = [result EXCEPT ![self] = "none"]
            /\ seen' = [seen EXCEPT ![self] = completed[filter_name][Str(item)]]
            /\ batch' = [batch EXCEPT ![filter_name] =
                  LET pos == Positions(Str(item), metadata[filter_name].size,
                                       metadata[filter_name].hash_functions)
                  IN  IF AddsOn(filter_name) = {}
                      THEN [live |-> TRUE, base |-> BitsValue(filter_name),
                            want |-> pos, keys |-> {Str(item)},
                            overlap |-> FALSE,
                            started |-> @.started \cup pos]
                      ELSE IF @.live
                      THEN [@ EXCEPT !.want = @ \cup pos,
                                     !.keys = @ \cup {Str(item)},
                                     !.overlap = TRUE,
                                     !.started = @ \cup pos]
                      ELSE [@ EXCEPT !.started = @ \cup pos]]
    /\ UNCHANGED <<metadata, bits, completed, torn>>

\* Variant: the last iteration also doubles the stored size (a resize).
add_setbit_resizes(self) ==
    /\ pc[self] = "add_loop"
    /\ LET f == frame[self]
           old == BitsValue(f.filter_name)
           new == SetBit(old, add_offset(f))
           last == f.i + 1 >= f.k
       IN  /\ bits' = Put(bits, f.filter_name, new)
           /\ metadata' =
                 IF last
                 THEN [metadata EXCEPT ![f.filter_name].size = 2 * @]
                 ELSE metadata
           /\ frame' = [frame EXCEPT ![self].i = f.i + 1]
           /\ pc' = [pc EXCEPT ![self] = IF last THEN "done" ELSE "add_loop"]
           /\ result' = [result EXCEPT ![self] = IF last THEN "True" ELSE "none"]
           /\ AfterSetBit(self, f.filter_name, old, new)
           /\ completed' =
                 IF ~last THEN completed
                 ELSE [completed EXCEPT ![f.filter_name][Str(f.item)] =
                         IF disturbed[self] # "init" THEN "yes"
                         ELSE IF @ = "no" THEN "stale" ELSE @]
    /\ UNCHANGED <<calls, seen, torn, batch>>

\* One iteration of `for i in range(k)`: setbit; after the last one, return True.
add_setbit(self) ==
    /\ pc[self] = "add_loop"
    /\ LET f == frame[self]
           old == BitsValue(f.filter_name)
           new == SetBit(old, add_offset(f))
           last == f.i + 1 >= f.k
       IN  /\ bits' = Put(bits, f.filter_name, new)
           /\ frame' = [frame EXCEPT ![self].i = f.i + 1]
           /\ pc' = [pc EXCEPT ![self] = IF last THEN "done" ELSE "add_loop"]
           /\ result' = [result EXCEPT ![self] = IF last THEN "True" ELSE "none"]
           /\ AfterSetBit(self, f.filter_name, old, new)
           /\ completed' =
                 IF ~last THEN completed
                 ELSE [completed EXCEPT ![f.filter_name][Str(f.item)] =
                         IF disturbed[self] # "init" THEN "yes"
                         ELSE IF @ = "no" THEN "stale" ELSE @]
    /\ UNCHANGED <<metadata, calls, seen, torn, batch>>

(***************************************************************************)
(* check_bloom_filter: hgetall, then up to k times getbit.                 *)
(***************************************************************************)
\* Variant: a missing filter is read as an empty one (returns False).
check_missing_is_empty(self, filter_name, item) ==
    /\ CanCall(self)
    /\ calls' = calls + 1
    /\ disturbed' = [disturbed EXCEPT ![self] = "none"]
    /\ frame' = [frame EXCEPT ![self] =
          [NoFrame EXCEPT !.op = "check", !.filter_name = filter_name,
                          !.item = item,
                          !.m = IF NotFound(filter_name) THEN 0
                                ELSE metadata[filter_name].size,
                          !.k = IF NotFound(filter_name) THEN 0
                                ELSE metadata[filter_name].hash_functions]]
    /\ pc' = [pc EXCEPT ![self] =
          IF NotFound(filter_name) THEN "done" ELSE "check_loop"]
    /\ result' = [result EXCEPT ![self] =
          IF NotFound(filter_name) THEN "False" ELSE "none"]
    /\ seen' = [seen EXCEPT ![self] =
          IF NotFound(filter_name) THEN "missing"
          ELSE completed[filter_name][Str(item)]]
    /\ UNCHANGED <<metadata, bits, completed, torn, batch>>

check_bloom_filter(self, filter_name, item) ==
    /\ CanCall(self)
    /\ calls' = calls + 1
    /\ disturbed' = [disturbed EXCEPT ![self] = "none"]
    /\ IF NotFound(filter_name)
       THEN /\ frame' = [frame EXCEPT ![self] =
                   [NoFrame EXCEPT !.op = "check", !.filter_name = filter_name,
                                   !.item = item]]
            /\ pc' = [pc EXCEPT ![self] = "done"]
            /\ result' = [result EXCEPT ![self] = "ValueError"]
            /\ seen' = [seen EXCEPT ![self] = "missing"]
       ELSE /\ frame' = [frame EXCEPT ![self] =
                   [NoFrame EXCEPT !.op = "check", !.filter_name = filter_name,
                                   !.item = item,
                                   !.m = metadata[filter_name].size,
                                   !.k = metadata[filter_name].hash_functions]]
            /\ pc' = [pc EXCEPT ![self] = "check_loop"]
            /\ result' = [result EXCEPT ![self] = "none"]
            /\ seen' = [seen EXCEPT ![self] = completed[filter_name][Str(item)]]
    /\ UNCHANGED <<metadata, bits, completed, torn, batch>>

\* Variant: the first set bit returns True (any instead of all).
check_getbit_any(self) ==
    /\ pc[self] = "check_loop"
    /\ LET f == frame[self]
           bit_set == getbit(f.filter_name, check_offset(f))
           last == f.i + 1 >= f.k
       IN  /\ frame' = [frame EXCEPT ![self].i = f.i + 1]
           /\ pc' = [pc EXCEPT ![self] =
                 IF bit_set = 1 \/ last THEN "done" ELSE "check_loop"]
           /\ result' = [result EXCEPT ![self] =
                 IF bit_set = 1 THEN "True"
                 ELSE IF last THEN "False" ELSE "none"]
           /\ completed' =
                 IF bit_set = 1 /\ disturbed[self] # "init"
                 THEN [completed EXCEPT ![f.filter_name][Str(f.item)] =
                         IF @ = "no" THEN "answered" ELSE @]
                 ELSE completed
    /\ UNCHANGED <<metadata, bits, calls, seen, disturbed, torn, batch>>

\* One iteration of `for i in range(k)`: getbit; an unset bit returns False,
\* the last set bit returns True.
check_getbit(self) ==
    /\ pc[self] = "check_loop"
    /\ LET f == frame[self]
           bit_set == getbit(f.filter_name, check_offset(f))
           last == f.i + 1 >= f.k
       IN  /\ frame' = [frame EXCEPT ![self].i = f.i + 1]
           /\ pc' = [pc EXCEPT ![self] =
                 IF bit_set = 0 \/ last THEN "done" ELSE "check_loop"]
           /\ result' = [result EXCEPT ![self] =
                 IF bit_set = 0 THEN "False"
                 ELSE IF last THEN "True" ELSE "none"]
           /\ completed' =
                 IF bit_set = 1 /\ last /\ disturbed[self] # "init"
                 THEN [completed EXCEPT ![f.filter_name][Str(f.item)] =
                         IF @ = "no" THEN "answered" ELSE @]
                 ELSE completed
    /\ UNCHANGED <<metadata, bits, calls, seen, disturbed, torn, batch>>

(***************************************************************************)
(* The pending store command of a call raises: the call ends there, and    *)
(* nothing it wrote is undone.                                             *)
(***************************************************************************)
\* Variant: a failed insert clears the buffer again (a rollback by reset).
store_failure_rolls_back(self) ==
    /\ Running(self)
    /\ pc' = [pc EXCEPT ![self] = "done"]
    /\ result' = [result EXCEPT ![self] = "StoreError"]
    /\ torn' = IF pc[self] = "init_bits"
               THEN torn \cup {frame[self].filter_name} ELSE torn
    /\ batch' = IF pc[self] = "add_loop"
                THEN [batch EXCEPT ![frame[self].filter_name] =
                        [NoBatch EXCEPT !.started =
                           batch[frame[self].filter_name].started]]
                ELSE batch
    /\ bits' = IF pc[self] = "add_loop" /\ frame[self].filter_name \in DOMAIN bits
               THEN [bits EXCEPT ![frame[self].filter_name] =
                       ZeroBuffer(@.len)]
               ELSE bits
    /\ UNCHANGED <<metadata, frame, calls, completed, seen, disturbed>>

store_failure(self) ==
    /\ Running(self)
    /\ pc' = [pc EXCEPT ![self] = "done"]
    /\ result' = [result EXCEPT ![self] = "StoreError"]
    /\ torn' = IF pc[self] = "init_bits"
               THEN torn \cup {frame[self].filter_name} ELSE torn
    /\ batch' = IF pc[self] = "add_loop"
                THEN [batch EXCEPT ![frame[self].filter_name] =
                        [NoBatch EXCEPT !.started =
                           batch[frame[self].filter_name].started]]
                ELSE batch
    /\ UNCHANGED <<metadata, bits, frame, calls, completed, seen, disturbed>>

Next ==
    \E self \in Procs :
        \/ \E filter_name \in Names, prm \in Params :
              initialize_bloom_filter(self, filter_name, prm[1], prm[2])
        \/ initialize_set_bits(self)
        \/ \E filter_name \in Names, item \in Items :
              add_to_bloom_filter(self, filter_name, item)
        \/ add_setbit(self)
        \/ \E filter_name \in Names, item \in Items :
              check_bloom_filter(self, filter_name, item)
        \/ check_getbit(self)
        \/ store_failure(self)

Spec == Init /\ [][Next]_vars

(***************************************************************************)
(* The sizing alone: one caller only initializes, over a grid of expected  *)
(* element counts and false positive rates.                                *)
(***************************************************************************)
SizingCaller == "c1"
SizingElements == {1, 40, 100, 1000}

\* In percent.
SizingRates == {1, 20, 50, 80, 99}

SizingParams == SizingElements \X SizingRates

SizingNext ==
    \/ \E filter_name \in Names, prm \in SizingParams :
          initialize_bloom_filter(SizingCaller, filter_name, prm[1], prm[2])
    \/ initialize_set_bits(SizingCaller)

SizingSpec == Init /\ [][SizingNext]_vars

(***************************************************************************)
(* Initialized filters: the store after initialize_bloom_filter(r, "A",    *)
(* 40, 0.2) and initialize_bloom_filter(r, "B", 1, 0.5) have returned, and *)
(* then any calls, with the items of FilterItems.                          *)
(***************************************************************************)
FilterInit ==
    /\ metadata = [n \in Names |->
                     IF n = "A" THEN Mapping(40, 20) ELSE Mapping(1, 50)]
    /\ bits = [n \in Names |-> ZeroBuffer((metadata[n].size + 7) \div 8)]
    /\ pc = [p \in Procs |-> "idle"]
    /\ frame = [p \in Procs |-> NoFrame]
    /\ result = [p \in Procs |-> "none"]
    /\ calls = 0
    /\ completed = [n \in Names |-> [key \in Keys |-> "no"]]
    /\ seen = [p \in Procs |-> "none"]
    /\ disturbed = [p \in Procs |-> "none"]
    /\ torn = {}
    /\ batch = [n \in Names |-> NoBatch]

FilterNext ==
    \E self \in Procs :
        \/ \E filter_name \in Names, prm \in Params :
              initialize_bloom_filter(self, filter_name, prm[1], prm[2])
        \/ initialize_set_bits(self)
        \/ \E filter_name \in Names, item \in FilterItems :
              add_to_bloom_filter(self, filter_name, item)
        \/ add_setbit(self)
        \/ \E filter_name \in Names, item \in FilterItems :
              check_bloom_filter(self, filter_name, item)
        \/ check_getbit(self)
        \/ store_failure(self)

FilterSpec == FilterInit /\ [][FilterNext]_vars

(***************************************************************************)
(* Properties.                                                             *)
(***************************************************************************)
Returned(p, op) ==
    frame[p].op = op /\ pc[p] = "done" /\ result[p] # "StoreError"

\* C1 as stated: once add_to_bloom_filter(name, x) has completed fully, every
\* later check_bloom_filter(name, x) returns True, whatever happened to the
\* filter in between.
C1_NoFalseNegativesEver ==
    \A p \in Procs :
        Returned(p, "check") /\ seen[p] \in {"yes", "stale"}
            => result[p] = "True"

\* C1, amended: once add_to_bloom_filter(name, x) has completed fully, every
\* later check_bloom_filter(name, x) returns True, provided no
\* initialize_bloom_filter wrote under that name since the insert began.
C1_NoFalseNegatives ==
    \A p \in Procs :
        Returned(p, "check") /\ seen[p] = "yes" /\ disturbed[p] # "init"
            => result[p] = "True"

\* A query of a fully inserted key has returned True.
C1_Witness ==
    \E p \in Procs :
        /\ Returned(p, "check") /\ seen[p] = "yes" /\ disturbed[p] # "init"
        /\ result[p] = "True"
        /\ frame[p].i = frame[p].k

\* C2: add_to_bloom_filter and check_bloom_filter on a name without metadata
\* raise the not-found error in their first step, before any setbit or getbit,
\* and leave the store as it was.
C2_NotFoundPropagation ==
    [][\A n \in Names \ DOMAIN metadata, p \in Procs, x \in Items :
          add_to_bloom_filter(p, n, x) \/ check_bloom_filter(p, n, x)
          => /\ result'[p] = "ValueError"
             /\ pc'[p] = "done"
             /\ frame'[p].i = 0
             /\ metadata' = metadata
             /\ bits' = bits]_vars

\* Both an insert and a query have found the filter missing.
C2_Witness ==
    \E p, q \in Procs :
        /\ frame[p].op = "add" /\ seen[p] = "missing"
        /\ result[p] = "ValueError"
        /\ frame[q].op = "check" /\ seen[q] = "missing"
        /\ result[q] = "ValueError"
        /\ frame[p].filter_name \notin DOMAIN bits

\* C3: while only one of the two writes of an initialization of a name has
\* been applied (the second is still to come, or never came), no
\* add_to_bloom_filter or check_bloom_filter is in its loop on that name,
\* that is, none has taken the filter for initialized.
C3_HalfInitializedNeverReady ==
    \A q \in Procs : InLoop(q) => ~Half(frame[q].filter_name)

\* C4 as stated: under initialize_bloom_filter, add_to_bloom_filter and
\* check_bloom_filter alike, no step takes a bit that is 1 back to 0.
C4_BitsNeverCleared ==
    [][\A n \in DOMAIN bits : bits[n].ones \subseteq bits'[n].ones]_vars

\* C4, amended: no step of add_to_bloom_filter or check_bloom_filter takes a
\* bit that is 1 back to 0; the only step that does is the buffer write of
\* initialize_bloom_filter on that name.
C4_BitsClearedOnlyByInitialize ==
    [][\A n \in DOMAIN bits :
          \/ bits[n].ones \subseteq bits'[n].ones
          \/ \E p \in Procs :
                initialize_set_bits(p) /\ frame[p].filter_name = n]_vars

\* Two bits of a filter are set, an insert and a query on it have returned.
C4_Witness ==
    \E n \in DOMAIN bits, p, q \in Procs :
        /\ Cardinality(bits[n].ones) >= 2
        /\ Returned(p, "add") /\ frame[p].filter_name = n
        /\ Returned(q, "check") /\ frame[q].filter_name = n

\* C5: when add_to_bloom_filter(name, x) has completed and the filter was not
\* initialized again, no step of a further add_to_bloom_filter(name, x)
\* changes the store: the buffer after two inserts is the buffer after one.
C5_InsertIdempotent ==
    [][\A p \in Procs :
          add_setbit(p) /\ seen[p] = "yes" /\ disturbed[p] # "init"
              => bits' = bits /\ metadata' = metadata]_vars

\* A second insert of an inserted key has run to its end.
C5_Witness ==
    \E p \in Procs :
        /\ Returned(p, "add") /\ result[p] = "True"
        /\ seen[p] = "yes" /\ disturbed[p] # "init"

\* C6: when the inserts that ran together on a name have all returned, the
\* buffer is the buffer from before the first of them with the offsets of all
\* their keys set, whatever the order of their setbit steps.
C6_ConcurrentInsertsCommute ==
    \A n \in Names :
        batch[n].live /\ AddsOn(n) = {}
            => BitsValue(n) = SetBits(batch[n].base, batch[n].want)

\* Two inserts of different keys with the same offset ran together and ended.
C6_Witness ==
    \E n \in Names :
        /\ batch[n].live /\ batch[n].overlap /\ AddsOn(n) = {}
        /\ Cardinality(batch[n].keys) = 2
        /\ Cardinality(batch[n].want) = 1
        /\ \A p \in Procs : Returned(p, "add") /\ result[p] = "True"

\* Every offset of the call f reads as 1 in the store.
AllSet(f) ==
    \A i \in 0 .. (f.k - 1) :
        getbit(f.filter_name, hash_val(Str(f.item), i, f.m)) = 1

\* C7: check_bloom_filter returns False in the very iteration that reads an
\* unset bit; it returns True only if all k offsets of the key are set; and
\* when nothing was written under the name during the query, its result is
\* True exactly if all k offsets are set, whatever the order of the reads.
C7_QueryResult ==
    [][\A p \in Procs :
          check_getbit(p) =>
            /\ getbit(frame[p].filter_name, check_offset(frame[p])) = 0
                  => result'[p] = "False" /\ pc'[p] = "done"
            /\ result'[p] = "True" /\ disturbed[p] # "init" => AllSet(frame[p])
            /\ pc'[p] = "done" /\ disturbed[p] = "none"
                  => (result'[p] = "True" <=> AllSet(frame[p]))]_vars

\* An undisturbed query found its first offset set and its second unset.
C7_Witness ==
    \E p \in Procs :
        /\ Returned(p, "check") /\ result[p] = "False"
        /\ disturbed[p] = "none"
        /\ frame[p].k = 2 /\ frame[p].i = 2

\* C8: when initialize_bloom_filter(name, n, p) returns, the buffer under name
\* is ceil(m/8) zero bytes, and, unless another initialization wrote under the
\* name meanwhile, the metadata under name holds size = m, hash_functions = k,
\* expected_elements = n and false_positive_rate = p, with k >= 1, so that no
\* key has all its offsets set.
C8_InitializationResult ==
    [][\A p \in Procs :
          initialize_set_bits(p) =>
            LET f == frame[p]
                n == f.filter_name
                m == size_of(f.expected_elements, f.false_positive_rate)
                k == hash_functions_of(f.expected_elements, f.false_positive_rate)
                nbytes == IF m % 8 = 0 THEN m \div 8 ELSE (m \div 8) + 1
            IN  /\ result'[p] = "dict"
                /\ bits'[n] = [len |-> nbytes, ones |-> {}]
                /\ disturbed[p] # "init" =>
                      /\ metadata'[n] =
                            [size |-> m, hash_functions |-> k,
                             expected_elements |-> f.expected_elements,
                             false_positive_rate |-> f.false_positive_rate]
                      /\ \A x \in Items :
                            Positions(Str(x), m, k) # {}
                            /\ Positions(Str(x), m, k) \cap bits'[n].ones = {}]_vars

\* An initialization has returned and left its metadata and its zero buffer.
C8_Witness ==
    \E p \in Procs :
        /\ Returned(p, "initialize") /\ result[p] = "dict"
        /\ disturbed[p] # "init"
        /\ frame[p].filter_name \in DOMAIN bits
        /\ bits[frame[p].filter_name] = ZeroBuffer(17)
        /\ metadata[frame[p].filter_name].size = 133
        /\ metadata[frame[p].filter_name].hash_functions = 2

\* C9: initialize_bloom_filter on a name that already has metadata does not
\* fail: its first step writes the newly computed mapping over the old one,
\* and its second step replaces the buffer by the new zero buffer, leaving no
\* bit of the previous filter.
C9_ReinitializationOverwrites ==
    [][\A p \in Procs, n \in DOMAIN metadata :
          /\ \A prm \in Params :
                initialize_bloom_filter(p, n, prm[1], prm[2]) =>
                    /\ pc'[p] = "init_bits"
                    /\ result'[p] # "ValueError"
                    /\ metadata'[n] = Mapping(prm[1], prm[2])
          /\ initialize_set_bits(p) /\ frame[p].filter_name = n
                /\ seen[p] # "fresh" =>
                    /\ result'[p] = "dict"
                    /\ bits'[n] = ZeroBuffer((frame[p].m + 7) \div 8)
                    /\ disturbed[p] # "init" =>
                          metadata'[n] = Mapping(frame[p].expected_elements,
                                                 frame[p].false_positive_rate)]_vars

\* A filter with set bits has been initialized again, with another size.
C9_Witness ==
    \E p \in Procs :
        /\ Returned(p, "initialize") /\ result[p] = "dict"
        /\ seen[p] = "used"
        /\ disturbed[p] # "init"
        /\ bits[frame[p].filter_name] = ZeroBuffer((frame[p].m + 7) \div 8)
        /\ metadata[frame[p].filter_name].size = frame[p].m

\* C10 as stated: once a name has metadata, its size and hash_functions never
\* change, whatever initialize_bloom_filter, add_to_bloom_filter and
\* check_bloom_filter calls follow.
C10_SizeAndHashesNeverChange ==
    [][\A n \in DOMAIN metadata :
          /\ metadata'[n].size = metadata[n].size
          /\ metadata'[n].hash_functions = metadata[n].hash_functions]_vars

\* C10, amended: once a name has metadata, no step of add_to_bloom_filter or
\* check_bloom_filter changes its size or hash_functions; they change only by
\* the metadata write of a further initialize_bloom_filter on that name.
C10_SizeAndHashesChangedOnlyByInitialize ==
    [][\A n \in DOMAIN metadata :
          \/ /\ metadata'[n].size = metadata[n].size
             /\ metadata'[n].hash_functions = metadata[n].hash_functions
          \/ \E p \in Procs, prm \in Params :
                initialize_bloom_filter(p, n, prm[1], prm[2])]_vars

\* An insert and a query have returned on a filter that keeps its parameters.
C10_Witness ==
    \E n \in DOMAIN metadata, p, q \in Procs :
        /\ Returned(p, "add") /\ result[p] = "True"
        /\ frame[p].filter_name = n
        /\ Returned(q, "check") /\ result[q] = "True"
        /\ frame[q].filter_name = n
        /\ metadata[n].size = frame[p].m /\ metadata[n].size = frame[q].m
        /\ metadata[n].hash_functions = frame[p].k

(***************************************************************************)
(* Sizing (checked under SizingSpec).                                      *)
(***************************************************************************)
\* C11 as stated: the stored size is max(100, ceil(-(n ln p) / (ln 2)^2)) and
\* the stored hash_functions is max(1, round((m_raw / n) ln 2)), m_raw the
\* size before its floor; n = 1000 and p = 0.01 give 9586 and 7.
C11_SizingRoundsUp ==
    \A name \in DOMAIN metadata :
        LET md == metadata[name]
            n == md.expected_elements
            x == n * NegLog(md.false_positive_rate)
            m_raw == (x + Log2Sq - 1) \div Log2Sq
            k_raw == (2 * m_raw * Log2 + n * LogScale) \div (2 * n * LogScale)
        IN  /\ md.size = Max(100, m_raw)
            /\ md.hash_functions = Max(1, k_raw)
            /\ (n = 1000 /\ md.false_positive_rate = 1)
                  => (md.size = 9586 /\ md.hash_functions = 7)

\* C11, amended: the stored size is max(100, floor(-(n ln p) / (ln 2)^2)) and
\* the stored hash_functions is max(1, floor((m_raw / n) ln 2)), m_raw the
\* size before its floor; n = 1000 and p = 0.01 give 9585 and 6.
C11_SizingTruncates ==
    \A name \in DOMAIN metadata :
        LET md == metadata[name]
            n == md.expected_elements
            x == n * NegLog(md.false_positive_rate)
            m_raw == x \div Log2Sq
            k_raw == (m_raw * Log2) \div (n * LogScale)
        IN  /\ m_raw * Log2Sq <= x /\ x < (m_raw + 1) * Log2Sq
            /\ md.size = Max(100, m_raw)
            /\ md.hash_functions = Max(1, k_raw)
            /\ (n = 1000 /\ md.false_positive_rate = 1)
                  => (md.size = 9585 /\ md.hash_functions = 6)

C11_Witness ==
    \E name \in DOMAIN metadata :
        /\ metadata[name].expected_elements = 1000
        /\ metadata[name].false_positive_rate = 1
        /\ metadata[name].size = 9585
        /\ metadata[name].hash_functions = 6
        /\ name \in DOMAIN bits
        /\ bits[name].len = 1199

\* C12: in every reachable state, every metadata mapping in the store has
\* size >= 100 and hash_functions >= 1, also for inputs whose computed
\* values are smaller (n = 1, p = 0.5 computes 1 and 0).
C12_Floors ==
    \A name \in DOMAIN metadata :
        /\ metadata[name].size >= 100
        /\ metadata[name].hash_functions >= 1

C12_Witness ==
    \E name \in DOMAIN metadata :
        /\ metadata[name].expected_elements = 1
        /\ metadata[name].false_positive_rate = 50
        /\ raw_m(1, 50) = 1
        /\ raw_k(1, 50) = 0
        /\ metadata[name].size = 100
        /\ metadata[name].hash_functions = 1

(***************************************************************************)
(* Initialized filters (checked under FilterSpec).                         *)
(***************************************************************************)
\* C13: on an initialized filter, with no initialization write under the name
\* during the query, check_bloom_filter(name, x) returns True once an insert
\* of x has set all its k bits or an earlier query of x has returned True, so
\* the answers for x never go from True to False; it returns False only when,
\* at its start, no insert of x had completed (one may be in flight).
C13_WeakConsistencyWindow ==
    \A p \in Procs :
        (Returned(p, "check") /\ disturbed[p] # "init") =>
            /\ seen[p] \in {"yes", "answered"} => result[p] = "True"
            /\ result[p] = "False" => seen[p] \in {"no", "stale"}

C13_Witness ==
    \E p \in Procs, q \in Procs :
        /\ Returned(p, "check") /\ result[p] = "False"
        /\ disturbed[p] = "set" /\ seen[p] = "no"
        /\ pc[q] = "add_loop" /\ disturbed[q] = "none"
        /\ frame[q].filter_name = frame[p].filter_name
        /\ Str(frame[q].item) = Str(frame[p].item)
        /\ frame[q].k = 2 /\ frame[q].i = 1
        /\ frame[p].i = 2

\* A query that started after another one had answered True.
C13_AnsweredBefore ==
    \E p \in Procs :
        /\ Returned(p, "check") /\ result[p] = "True"
        /\ seen[p] = "answered" /\ disturbed[p] = "none"

\* C14: when a store command of add_to_bloom_filter(name, x) raises after j < k
\* bit-sets, the failure changes nothing in the store: the j bits stay set
\* (no rollback), they are the offsets of the seeds 0 .. j-1 only, and every
\* key whose insert completed still has all its bits set; only x may read as
\* absent.
C14_PartialInsertFailure ==
    [][\A p \in Procs :
          (store_failure(p) /\ pc[p] = "add_loop") =>
              LET f == frame[p]
                  done == {hash_val(Str(f.item), i, f.m) : i \in 0 .. (f.i - 1)}
              IN  /\ f.i < f.k
                  /\ bits' = bits /\ metadata' = metadata
                  /\ result'[p] = "StoreError" /\ pc'[p] = "done"
                  /\ disturbed[p] # "init" =>
                        /\ done \subseteq BitsValue(f.filter_name).ones
                        /\ (batch[f.filter_name].live
                            /\ ~batch[f.filter_name].overlap) =>
                              BitsValue(f.filter_name) =
                                  SetBits(batch[f.filter_name].base, done)
                  /\ \A key \in Keys :
                        completed'[f.filter_name][key] = "yes" =>
                            Positions(key, metadata'[f.filter_name].size,
                                      metadata'[f.filter_name].hash_functions)
                                \subseteq BitsValue(f.filter_name)'.ones
      ]_vars

C14_Witness ==
    \E p \in Procs, q \in Procs :
        /\ frame[p].op = "add" /\ pc[p] = "done" /\ result[p] = "StoreError"
        /\ frame[p].k = 2 /\ frame[p].i = 1 /\ disturbed[p] = "none"
        /\ BitsValue(frame[p].filter_name).ones =
              {hash_val(Str(frame[p].item), 0, frame[p].m)}
        /\ Returned(q, "check") /\ result[q] = "False" /\ frame[q].i = 2
        /\ frame[q].filter_name = frame[p].filter_name
        /\ Str(frame[q].item) = Str(frame[p].item)

\* C15: for a fixed false positive rate the stored size does not decrease when
\* the expected element count grows, and for a fixed expected element count
\* it does not increase when the false positive rate grows.
C15_SizingMonotone ==
    \A a \in DOMAIN metadata, b \in DOMAIN metadata :
        /\ (/\ metadata[a].false_positive_rate = metadata[b].false_positive_rate
            /\ metadata[a].expected_elements <= metadata[b].expected_elements)
              => metadata[a].size <= metadata[b].size
        /\ (/\ metadata[a].expected_elements = metadata[b].expected_elements
            /\ metadata[a].false_positive_rate <= metadata[b].false_positive_rate)
              => metadata[a].size >= metadata[b].size

C15_Witness ==
    \E a \in DOMAIN metadata, b \in DOMAIN metadata :
        /\ metadata[a].expected_elements = metadata[b].expected_elements
        /\ metadata[a].false_positive_rate < metadata[b].false_positive_rate
        /\ metadata[a].size > metadata[b].size
        /\ metadata[b].size > 100

\* Sizes that grow strictly with the expected element count.
C15_GrowsWithElements ==
    \E a \in DOMAIN metadata, b \in DOMAIN metadata :
        /\ metadata[a].false_positive_rate = metadata[b].false_positive_rate
        /\ metadata[a].expected_elements < metadata[b].expected_elements
        /\ metadata[a].size < metadata[b].size
        /\ metadata[a].size > 100

\* C16: every offset an insert sets or a query reads lies in [0, m) for the
\* size m currently stored for that filter, and no setbit grows the buffer
\* beyond ceil(m / 8) bytes, under any interleaving of initialize, insert and
\* query calls.
C16_OffsetsWithinStoredSize ==
    [][\A p \in Procs :
          /\ add_setbit(p) =>
                LET name == frame[p].filter_name
                    m == metadata[name].size
                IN  /\ add_offset(frame[p]) \in 0 .. (m - 1)
                    /\ BitsValue(name)'.len
                          <= Max(BitsValue(name).len, (m + 7) \div 8)
          /\ check_getbit(p) =>
                check_offset(frame[p])
                    \in 0 .. (metadata[frame[p].filter_name].size - 1)
      ]_vars

\* In every call, the offsets lie in [0, m) for the size m the call read.
C16_OffsetsWithinSizeRead ==
    [][\A p \in Procs :
          /\ add_setbit(p) => add_offset(frame[p]) \in 0 .. (frame[p].m - 1)
          /\ check_getbit(p) => check_offset(frame[p]) \in 0 .. (frame[p].m - 1)
      ]_vars

\* C17: no step of check_bloom_filter changes the metadata or the bits of any
\* filter; no step of add_to_bloom_filter changes any metadata, and the only
\* buffer it changes is the one of the filter it was called with.
C17_QueryReadOnlyInsertBitsOnly ==
    [][\A p \in Procs :
          /\ (\/ check_getbit(p)
              \/ /\ frame'[p].op = "check"
                 /\ check_bloom_filter(p, frame'[p].filter_name, frame'[p].item)
              \/ /\ frame'[p].op = "add"
                 /\ add_to_bloom_filter(p, frame'[p].filter_name, frame'[p].item))
                => (metadata' = metadata /\ bits' = bits)
          /\ add_setbit(p) =>
                /\ metadata' = metadata
                /\ DOMAIN bits' = DOMAIN bits \cup {frame[p].filter_name}
                /\ \A n \in DOMAIN bits \ {frame[p].filter_name} :
                      bits'[n] = bits[n]
      ]_vars

C17_Witness ==
    \E p \in Procs, q \in Procs :
        /\ Returned(p, "check") /\ result[p] = "True"
        /\ Returned(q, "add") /\ result[q] = "True"
        /\ frame[p].filter_name = "A" /\ frame[q].filter_name = "A"
        /\ metadata = [n \in Names |->
                         IF n = "A" THEN Mapping(40, 20) ELSE Mapping(1, 50)]
        /\ bits["A"] = SetBits(ZeroBuffer(17),
                               Positions(Str(frame[q].item), 133, 2))
        /\ bits["B"] = ZeroBuffer(13)

\* C18: for the same key after str() and the same (m, k), the insert and the
\* query address the same offsets: iteration i of either, i in 0 .. k-1,
\* sets respectively reads the bit at mmh3.hash(str(item), i) % m, whatever
\* the type of the item and however often it is called.
C18_SamePositions ==
    [][\A p \in Procs :
          /\ add_setbit(p) =>
                LET f == frame[p]
                IN  /\ f.i \in 0 .. (f.k - 1)
                    /\ BitsValue(f.filter_name)'.ones =
                          BitsValue(f.filter_name).ones
                              \cup {mmh3_hash(Str(f.item), f.i) % f.m}
          /\ check_getbit(p) =>
                LET f == frame[p]
                IN  /\ f.i \in 0 .. (f.k - 1)
                    /\ (result'[p] = "False") =
                          ((mmh3_hash(Str(f.item), f.i) % f.m)
                              \notin BitsValue(f.filter_name).ones)
          /\ \A q \in Procs :
                (/\ pc[p] = "add_loop" /\ pc[q] = "check_loop"
                 /\ Str(frame[p].item) = Str(frame[q].item)
                 /\ frame[p].m = frame[q].m /\ frame[p].i = frame[q].i)
                    => add_offset(frame[p]) = check_offset(frame[q])
      ]_vars

C18_Witness ==
    \E p \in Procs, q \in Procs :
        /\ pc[p] = "add_loop" /\ pc[q] = "check_loop"
        /\ frame[p].item # frame[q].item
        /\ Str(frame[p].item) = Str(frame[q].item)
        /\ frame[p].filter_name = frame[q].filter_name
        /\ frame[p].m = frame[q].m /\ frame[p].k = 2 /\ frame[q].k = 2
        /\ frame[p].i = 1 /\ frame[q].i = 1
        /\ BitsValue(frame[p].filter_name).ones =
              {hash_val(Str(frame[p].item), 0, frame[p].m)}
        /\ add_offset(frame[p]) = check_offset(frame[q])

\* C19: in every reachable state, each bit that is 1 in a filter's buffer is
\* an offset mmh3.hash(str(x), i) % m, i < k, of some key x whose insert on
\* that filter started since the buffer was created; so a query returns False
\* for every key while no insert has been started on the filter.
C19_SetBitsAccounted ==
    /\ \A name \in DOMAIN bits :
          bits[name].ones \subseteq batch[name].started
    /\ \A name \in DOMAIN bits \cap DOMAIN metadata :
          batch[name].started = {} =>
              \A key \in Keys :
                  \E i \in 0 .. (metadata[name].hash_functions - 1) :
                      getbit(name, hash_val(key, i, metadata[name].size)) = 0

\* C20: a step of a call on one filter name leaves the metadata and the bits
\* stored for every other name as they are, and what the call finds (not
\* found, m, k, the bit it reads) is read from the store under its own name.
C20_FilterIsolation ==
    [][\A p \in Procs :
          LET own == frame'[p].filter_name
              step == \/ pc'[p] # pc[p] \/ frame'[p] # frame[p]
                      \/ result'[p] # result[p]
          IN  step =>
                /\ \A n \in Names \ {own} :
                      /\ (n \in DOMAIN metadata') = (n \in DOMAIN metadata)
                      /\ (n \in DOMAIN bits') = (n \in DOMAIN bits)
                      /\ n \in DOMAIN metadata => metadata'[n] = metadata[n]
                      /\ n \in DOMAIN bits => bits'[n] = bits[n]
                /\ (pc[p] \in {"idle", "done"} /\ frame'[p].op \in {"add", "check"})
                      => /\ (result'[p] = "ValueError") = (own \notin DOMAIN metadata)
                         /\ own \in DOMAIN metadata =>
                               /\ frame'[p].m = metadata[own].size
                               /\ frame'[p].k = metadata[own].hash_functions
                /\ pc[p] = "check_loop" =>
                      (result'[p] \in {"False", "StoreError"})
                         \/ check_offset(frame[p]) \in BitsValue(own).ones
      ]_vars

C20_Witness ==
    \E p \in Procs, q \in Procs :
        /\ Returned(p, "add") /\ result[p] = "True" /\ frame[p].filter_name = "A"
        /\ Returned(q, "check") /\ result[q] = "False" /\ frame[q].filter_name = "B"
        /\ Str(frame[p].item) = Str(frame[q].item)
        /\ metadata = [n \in Names |->
                         IF n = "A" THEN Mapping(40, 20) ELSE Mapping(1, 50)]
        /\ bits["A"].ones = Positions(Str(frame[p].item), 133, 2)
        /\ bits["B"] = ZeroBuffer(13)

=============================================================================
